---- MODULE Spec2Model ----
(***************************************************************************)
(* state2slack.py: one invocation of main() reads the command line, opens  *)
(* the dated log file (which doubles as the "already ran today" marker),   *)
(* loads the configuration, fetches one entity state from Home Assistant,  *)
(* resolves it to a Slack target, posts the state message and, when        *)
(* configured, posts a summary.  The model runs invocations one after the  *)
(* other; the log directory is the only thing that outlives a process.     *)
(***************************************************************************)
EXTENDS Integers, Sequences, FiniteSets, TLC

\* Invocations of main() on one calendar date.
MaxInvocations == 3

-----------------------------------------------------------------------------
(* Python values.  Strings are sequences of characters. *)

None == [type |-> "NoneType"]
Str(s) == [type |-> "str", val |-> s]
Bool(b) == [type |-> "bool", val |-> b]

\* A local variable that has not been assigned yet.
Unbound == [type |-> "unbound"]

\* Python truth value of an object, as tested by `if x:`.
Truthy(v) ==
    CASE v.type = "NoneType" -> FALSE
      [] v.type = "bool" -> v.val
      [] v.type = "str" -> Len(v.val) > 0
      [] OTHER -> TRUE

UpperCase == <<"A","B","C","D","E","F","G","H","I","J","K","L","M",
               "N","O","P","Q","R","S","T","U","V","W","X","Y","Z">>
LowerCase == <<"a","b","c","d","e","f","g","h","i","j","k","l","m",
               "n","o","p","q","r","s","t","u","v","w","x","y","z">>

lower_char(c) ==
    IF \E i \in DOMAIN UpperCase : UpperCase[i] = c
    THEN LowerCase[CHOOSE i \in DOMAIN UpperCase : UpperCase[i] = c]
    ELSE c

\* str.lower()
lower(s) == [i \in 1..Len(s) |-> lower_char(s[i])]

\* str(value): a string is itself, None is the four characters "None".
str(v) ==
    CASE v.type = "str" -> v.val
      [] v.type = "NoneType" -> <<"N","o","n","e">>
      [] v.type = "bool" -> IF v.val THEN <<"T","r","u","e">>
                                     ELSE <<"F","a","l","s","e">>

\* dict.get(key, default) on a dict modelled as a function.
dict_get(d, key, default) == IF key \in DOMAIN d THEN d[key] ELSE default

-----------------------------------------------------------------------------
(* The strings the inputs are drawn from. *)

s_home == <<"h","o","m","e">>
s_Home == <<"H","o","m","e">>
s_HOME == <<"H","O","M","E">>
s_away == <<"a","w","a","y">>
s_none == <<"n","o","n","e">>
s_default == <<"d","e","f","a","u","l","t">>
s_empty == <<>>

EntityId == <<"s","1">>
OtherEntityId == <<"s","2">>

\* --state on the command line: absent, or any string (the empty one too).
StateOverrides == {None, Str(s_Home), Str(s_away), Str(s_empty)}

\* States Home Assistant may report for the entity.
ReportedStates == {s_home, s_HOME, s_away}

\* Keys a configuration may use in slack_states.
MappingKeys == {s_home, s_Home, s_none, s_default}

-----------------------------------------------------------------------------
(* Configuration: the YAML document and the dataclasses built from it. *)

RawSlackState(k) ==
    IF k = s_default
    THEN [webhook_url |-> Str(<<"w">>), message |-> Str(k), target_id |-> Str(<<"U">>)]
    ELSE [webhook_url |-> Str(<<"w">>), message |-> Str(k)]

\* Every choice of keys, and one mapping with a key whose entry is null
\* (slack_states is a dict[str, Optional[SlackState]]).
RawMappings ==
    { [k \in K |-> RawSlackState(k)] : K \in SUBSET MappingKeys }
    \cup { [k \in {s_home, s_default} |->
               IF k = s_home THEN None ELSE RawSlackState(k)] }

RawHomeAssistant ==
    [url |-> Str(<<"h">>), access_token |-> Str(<<"t">>), entity_id |-> Str(EntityId)]

RawHomeAssistants ==
    { RawHomeAssistant,
      [url |-> Str(<<"h">>), access_token |-> Str(<<"t">>), entity_id |-> Str(EntityId),
       insecure |-> Bool(TRUE)],
      [url |-> Str(<<"h">>), access_token |-> Str(<<"t">>), entity_id |-> Str(EntityId),
       insecure |-> Bool(FALSE)] }

RawSlackSummary == [webhook_url |-> Str(<<"v">>)]

ValidDocuments ==
    { [home_assistant |-> ha, slack_states |-> m] :
         ha \in RawHomeAssistants, m \in RawMappings }
    \cup
    { [home_assistant |-> ha, slack_states |-> m, slack_summary |-> RawSlackSummary] :
         ha \in RawHomeAssistants, m \in RawMappings }

\* Documents that parse as YAML but are not a Config.
InvalidDocuments ==
    { None,
      [home_assistant |-> RawHomeAssistant],
      [home_assistant |-> [url |-> Str(<<"h">>), access_token |-> Str(<<"t">>)],
       slack_states |-> [k \in {s_default} |-> RawSlackState(k)]],
      [home_assistant |-> [url |-> Str(<<"h">>), access_token |-> Str(<<"t">>),
                           entity_id |-> Str(EntityId), insecure |-> Str(<<"n","o">>)],
       slack_states |-> [k \in {s_default} |-> RawSlackState(k)]],
      [home_assistant |-> RawHomeAssistant,
       slack_states |-> [k \in {s_default} |-> [webhook_url |-> Str(<<"w">>)]],
       slack_summary |-> RawSlackSummary] }

ConfigFiles ==
    { [kind |-> "missing"], [kind |-> "unparseable"] }
    \cup { [kind |-> "yaml", data |-> d] : d \in ValidDocuments \cup InvalidDocuments }

IsStrField(d, f) == f \in DOMAIN d /\ d[f].type = "str"

\* dacite's checks of a dataclass: the fields without a default are present and
\* every field given has its annotated type.
HomeAssistantOk(d) ==
    /\ IsStrField(d, "url")
    /\ IsStrField(d, "access_token")
    /\ IsStrField(d, "entity_id")
    /\ "insecure" \in DOMAIN d => d.insecure.type = "bool"

SlackStateOk(d) ==
    /\ IsStrField(d, "webhook_url")
    /\ IsStrField(d, "message")
    /\ "target_id" \in DOMAIN d => d.target_id.type = "str"

SlackSummaryOk(d) ==
    /\ IsStrField(d, "webhook_url")
    /\ "target_id" \in DOMAIN d => d.target_id.type = "str"

\* dacite.from_dict(Config, data) succeeds exactly on these documents.
ConfigOk(d) ==
    /\ d # None
    /\ "home_assistant" \in DOMAIN d
    /\ HomeAssistantOk(d.home_assistant)
    /\ "slack_states" \in DOMAIN d
    /\ \A k \in DOMAIN d.slack_states :
          d.slack_states[k] = None \/ SlackStateOk(d.slack_states[k])
    /\ "slack_summary" \in DOMAIN d =>
          (d.slack_summary # None /\ SlackSummaryOk(d.slack_summary))

HomeAssistant(d) ==
    [url |-> d.url.val, access_token |-> d.access_token.val,
     entity_id |-> d.entity_id.val,
     insecure |-> IF "insecure" \in DOMAIN d THEN d.insecure.val ELSE FALSE]

SlackState(d) ==
    IF d = None THEN None
    ELSE [type |-> "SlackState", webhook_url |-> d.webhook_url.val,
          message |-> d.message.val,
          target_id |-> IF "target_id" \in DOMAIN d THEN d.target_id ELSE None]

SlackSummary(d) ==
    [type |-> "SlackSummary", webhook_url |-> d.webhook_url.val,
     target_id |-> IF "target_id" \in DOMAIN d THEN d.target_id ELSE None]

Config(d) ==
    [type |-> "Config",
     home_assistant |-> HomeAssistant(d.home_assistant),
     slack_states |-> [k \in DOMAIN d.slack_states |-> SlackState(d.slack_states[k])],
     slack_summary |-> IF "slack_summary" \in DOMAIN d
                       THEN SlackSummary(d.slack_summary) ELSE None]

\* A Config filled in field by field, whatever the document lacks.
PartialConfig(d) ==
    [type |-> "Config",
     home_assistant |-> [url |-> <<"h">>, access_token |-> <<"t">>,
                         entity_id |-> EntityId, insecure |-> FALSE],
     slack_states |->
        IF d # None /\ "slack_states" \in DOMAIN d
        THEN [k \in DOMAIN d.slack_states |->
                 IF d.slack_states[k] # None /\ SlackStateOk(d.slack_states[k])
                 THEN SlackState(d.slack_states[k])
                 ELSE [type |-> "SlackState", webhook_url |-> <<"w">>,
                       message |-> k, target_id |-> None]]
        ELSE [k \in {s_default} |->
                 [type |-> "SlackState", webhook_url |-> <<"w">>,
                  message |-> k, target_id |-> None]],
     slack_summary |-> None]

load_config_partial(file) ==
    IF file.kind # "yaml" THEN None
    ELSE IF ConfigOk(file.data) THEN Config(file.data) ELSE PartialConfig(file.data)

\* open() raises on a missing file, yaml.safe_load on bad syntax, dacite on a
\* missing field or a wrong type; every exception is caught and None returned.
load_config(file) ==
    IF file.kind # "yaml" THEN None
    ELSE IF ConfigOk(file.data) THEN Config(file.data) ELSE None

\* Config.slack_state(value)
Config_slack_state(config, value) ==
    dict_get(config.slack_states, lower(str(value)),
             dict_get(config.slack_states, s_default, None))

-----------------------------------------------------------------------------
(* HTTP: what the two servers may answer. *)

ConnectionError == [kind |-> "exception"]

Response(status, ctype, body) ==
    [kind |-> "http", status_code |-> status, content_type |-> ctype, body |-> body]

\* The Content-Type header as a sequence of parts; <<>> when the header is absent.
ContentTypes == { <<"application/json">>, <<"application/json", "; charset=utf-8">>,
                  <<"text/html">>, <<>> }

StatusCodes == {200, 500}

NotJson == [json |-> FALSE]
Json(v) == [json |-> TRUE, value |-> v]
JsonList(items) == [type |-> "list", items |-> items]
JsonDict(items) == [type |-> "dict", items |-> items]

Entity(id, state) == JsonDict([entity_id |-> Str(id), state |-> Str(state)])

\* Bodies of GET /api/states.
StatesBodies ==
    { NotJson,
      Json(JsonList(<<>>)),
      Json(JsonList(<<Entity(OtherEntityId, s_home)>>)),
      Json(JsonList(<<JsonDict([entity_id |-> Str(EntityId)])>>)),
      Json(JsonDict([message |-> Str(<<"e">>)])) }
    \cup { Json(JsonList(<<Entity(OtherEntityId, s_away), Entity(EntityId, s)>>)) :
              s \in ReportedStates }

\* Bodies the webhook may answer with.
WebhookBodies ==
    { NotJson,
      Json(JsonList(<<>>)),
      Json(JsonDict([ok |-> Bool(TRUE)])),
      Json(JsonDict([ok |-> Bool(FALSE)])),
      Json(JsonDict([ok |-> Str(<<"f","a","l","s","e">>)])),
      Json(JsonDict([error |-> Str(<<"e">>)])) }

StatesResponses ==
    { ConnectionError }
    \cup { Response(s, c, b) : s \in StatusCodes, c \in ContentTypes, b \in StatesBodies }

WebhookResponses ==
    { ConnectionError }
    \cup { Response(s, c, b) : s \in StatusCodes, c \in ContentTypes, b \in WebhookBodies }

\* 'application/json' in content_type
IsJsonContentType(ctype) == \E i \in 1..Len(ctype) : ctype[i] = "application/json"

\* Results of a function call: a returned value or an exception that propagates,
\* with the lines it logged.
Returned(v, lines) == [raised |-> FALSE, value |-> v, log |-> lines]
Raised(lines) == [raised |-> TRUE, value |-> None, log |-> lines]

Line(level, msg) == [level |-> level, msg |-> msg]

\* next((e for e in response.json() if config.entity_id == e.get('entity_id', '')), None)
RECURSIVE find_entity(_, _)
find_entity(items, entity_id) ==
    IF items = <<>> THEN None
    ELSE IF dict_get(Head(items).items, "entity_id", Str(<<>>)) = Str(entity_id)
         THEN Head(items)
         ELSE find_entity(Tail(items), entity_id)

\* get_entity_state(config) given the server's answer.
get_entity_state(config, response) ==
    IF response.kind = "exception"
    THEN Returned(None, <<Line("ERROR", "Unexpected error")>>)
    ELSE IF response.status_code # 200
    THEN Returned(None, <<Line("ERROR", "Unexpected status code")>>)
    ELSE IF ~IsJsonContentType(response.content_type)
    THEN Returned(None, <<Line("ERROR", "Unexpected Content-Type")>>)
    ELSE IF ~response.body.json
    THEN Raised(<<>>)                       \* response.json() raises
    ELSE IF response.body.value.type # "list"
    THEN Raised(<<>>)                       \* a key of a dict has no .get
    ELSE LET entity == find_entity(response.body.value.items, config.entity_id)
         IN  IF entity = None
             THEN Returned(None, <<Line("WARNING", "Entity was not found")>>)
             ELSE Returned(dict_get(entity.items, "state", None), <<>>)

\* post_slack_webhook(url, json) given the server's answer.
post_slack_webhook(response) ==
    IF response.kind = "exception"
    THEN Returned(Bool(FALSE), <<Line("ERROR", "Unexpected error")>>)
    ELSE IF response.status_code # 200
    THEN Returned(Bool(FALSE), <<Line("ERROR", "Unexpected status code")>>)
    ELSE IF ~IsJsonContentType(response.content_type)
    THEN Returned(Bool(FALSE), <<Line("ERROR", "Unexpected Content-Type")>>)
    ELSE IF ~response.body.json
    THEN Raised(<<>>)                       \* response.json() raises
    ELSE IF response.body.value.type # "dict"
    THEN Raised(<<>>)                       \* a list has no .get
    ELSE Returned(dict_get(response.body.value.items, "ok", Bool(FALSE)), <<>>)

\* build_summary_message(config, success): a str whose val lists the pieces of
\* the text in order (the literal parts as they are written in the source).
build_summary_message(config, success) ==
    Str((IF Truthy(success) THEN <<"Successfully sent ", config.message>>
                            ELSE <<"Failed to send ", config.message>>)
        \o (IF config.target_id # None THEN <<" to ", config.target_id.val>> ELSE <<>>))

-----------------------------------------------------------------------------
(* The log file and the requests library. *)

NoFile == [exists |-> FALSE, lines |-> <<>>]

\* logging.FileHandler opened for writing from the start of the file.
FileHandler_truncating(file) == [exists |-> TRUE, lines |-> <<>>]

\* logging.FileHandler(file): opens in append mode, creating the file.
FileHandler(file) == [exists |-> TRUE, lines |-> file.lines]

\* A marker check that never sees the file.
init_logger_blind(file) == FALSE

\* init_logger's return value: os.path.exists(file) before the handler opens it.
init_logger(file) == file.exists

write(file, lines) == [exists |-> file.exists, lines |-> file.lines \o lines]

\* The verify argument of requests.get.
verify(home_assistant) == home_assistant.insecure

\* main fetches always.
fetch_needed_always(state) == TRUE

\* main fetches when no override was given.
fetch_needed(state) == state = None

\* main never stops for a missing target.
no_target_ignored(target) == FALSE

\* main stops when nothing resolved.
no_target(target) == target = None

Functions == {"get_entity_state", "send_slack_state_message", "send_slack_summary_message"}

-----------------------------------------------------------------------------
VARIABLES
    logfile,        \* log/<today>.log; files of other dates are never opened
    requests,       \* HTTP requests issued today, per calling function
    invocations,    \* invocations of main() started today
    pc,             \* where the running process is in main()
    args,           \* parsed command line
    config_file,    \* what the process found at args.config
    config,
    entity_state,
    slack_state,
    success,
    summary,
    response,       \* the answer to the latest HTTP request
    calls,          \* the HTTP requests of the running process, in order
    exit            \* how main() ended: "return" or "exception"

process_vars == <<pc, args, config_file, config, entity_state, slack_state,
                  success, summary, response, calls, exit>>
vars == <<logfile, requests, invocations, pc, args, config_file, config,
          entity_state, slack_state, success, summary, response, calls, exit>>

NoProcess ==
    /\ pc = "idle"
    /\ args = Unbound
    /\ config_file = Unbound
    /\ config = Unbound
    /\ entity_state = Unbound
    /\ slack_state = Unbound
    /\ success = Unbound
    /\ summary = Unbound
    /\ response = Unbound
    /\ calls = <<>>
    /\ exit = "none"

Init ==
    /\ logfile = NoFile
    /\ requests = [f \in Functions |-> 0]
    /\ invocations = 0
    /\ NoProcess

Request(fn, v) == [fn |-> fn, verify |-> v]

\* main, lines 271-274: a new process parses its command line.
ParseArgs ==
    /\ pc = "idle"
    /\ invocations < MaxInvocations
    /\ \E st \in StateOverrides :
          /\ args' = [state |-> st]
          /\ entity_state' = st
    /\ invocations' = invocations + 1
    /\ pc' = "init_logger"
    /\ UNCHANGED <<logfile, requests, config_file, config, slack_state, success,
                   summary, response, calls, exit>>

\* main, lines 276-279.
InitLogger ==
    /\ pc = "init_logger"
    /\ IF init_logger(logfile)
       THEN /\ logfile' = write(FileHandler(logfile),
                                <<Line("INFO", "Log file already exists")>>)
            /\ pc' = "done"
            /\ exit' = "return"
       ELSE /\ logfile' = FileHandler(logfile)
            /\ pc' = "load_config"
            /\ exit' = exit
    /\ UNCHANGED <<requests, invocations, args, config_file, config, entity_state,
                   slack_state, success, summary, response, calls>>

\* main, lines 281-284.
LoadConfig ==
    /\ pc = "load_config"
    /\ \E file \in ConfigFiles :
          /\ config_file' = file
          /\ config' = load_config(file)
    /\ IF config' = None
       THEN /\ logfile' = write(logfile, <<Line("ERROR", "Invalid configuration")>>)
            /\ pc' = "done"
            /\ exit' = "return"
       ELSE /\ logfile' = logfile
            /\ pc' = "get_entity_state"
            /\ exit' = exit
    /\ UNCHANGED <<requests, invocations, args, entity_state, slack_state, success,
                   summary, response, calls>>

\* main, lines 286-291.
GetEntityState ==
    /\ pc = "get_entity_state"
    /\ IF fetch_needed(entity_state)
       THEN \E r \in StatesResponses :
              LET res == get_entity_state(config.home_assistant, r) IN
              /\ response' = r
              /\ calls' = Append(calls, Request("get_entity_state",
                                                verify(config.home_assistant)))
              /\ requests' = [requests EXCEPT !["get_entity_state"] = @ + 1]
              /\ IF res.raised
                 THEN /\ logfile' = write(logfile, res.log)
                      /\ entity_state' = entity_state
                      /\ pc' = "done"
                      /\ exit' = "exception"
                 ELSE /\ logfile' = write(logfile, res.log \o
                                 <<Line("INFO", "Entity state identified")>>)
                      /\ entity_state' = res.value
                      /\ pc' = "slack_state"
                      /\ exit' = exit
       ELSE /\ logfile' = write(logfile, <<Line("INFO", "Entity state manually set")>>)
            /\ pc' = "slack_state"
            /\ UNCHANGED <<response, calls, requests, entity_state, exit>>
    /\ UNCHANGED <<invocations, args, config_file, config, slack_state, success, summary>>

\* main, lines 293-299.
ResolveSlackState ==
    /\ pc = "slack_state"
    /\ slack_state' = Config_slack_state(config, entity_state)
    /\ IF no_target(slack_state')
       THEN /\ logfile' = write(logfile, <<Line("WARNING", "No Slack configuration found")>>)
            /\ pc' = "done"
            /\ exit' = "return"
       ELSE /\ logfile' = logfile
            /\ pc' = "send_state"
            /\ exit' = exit
    /\ UNCHANGED <<requests, invocations, args, config_file, config, entity_state,
                   success, summary, response, calls>>

\* main, lines 301-306: send_slack_state_message, build_summary_message, log.
SendState ==
    /\ pc = "send_state"
    /\ IF slack_state = None
       THEN \* config.message on None raises before any request is made
            /\ pc' = "done"
            /\ exit' = "exception"
            /\ UNCHANGED <<logfile, requests, success, summary, response, calls>>
       ELSE \E r \in WebhookResponses :
              LET res == post_slack_webhook(r) IN
              /\ response' = r
              /\ calls' = Append(calls, Request("send_slack_state_message", TRUE))
              /\ requests' = [requests EXCEPT !["send_slack_state_message"] = @ + 1]
              /\ IF res.raised
                 THEN /\ logfile' = write(logfile, res.log)
                      /\ pc' = "done"
                      /\ exit' = "exception"
                      /\ UNCHANGED <<success, summary>>
                 ELSE /\ success' = res.value
                      /\ summary' = build_summary_message(slack_state, res.value)
                      /\ logfile' = write(logfile, res.log \o
                              <<Line(IF Truthy(res.value) THEN "INFO" ELSE "WARNING",
                                     "summary")>>)
                      /\ pc' = "send_summary"
                      /\ exit' = exit
    /\ UNCHANGED <<invocations, args, config_file, config, entity_state, slack_state>>

\* main, lines 308-310.
SendSummary ==
    /\ pc = "send_summary"
    /\ IF config.slack_summary # None
       THEN \E r \in WebhookResponses :
              LET res == post_slack_webhook(r) IN
              /\ response' = r
              /\ calls' = Append(calls, Request("send_slack_summary_message", TRUE))
              /\ requests' = [requests EXCEPT !["send_slack_summary_message"] = @ + 1]
              /\ logfile' = write(logfile, res.log)
              /\ exit' = IF res.raised THEN "exception" ELSE "return"
       ELSE /\ exit' = "return"
            /\ UNCHANGED <<logfile, requests, response, calls>>
    /\ pc' = "done"
    /\ UNCHANGED <<invocations, args, config_file, config, entity_state, slack_state,
                   success, summary>>

\* The process ends; only the log directory remains.
Exit ==
    /\ pc = "done"
    /\ pc' = "idle"
    /\ args' = Unbound
    /\ config_file' = Unbound
    /\ config' = Unbound
    /\ entity_state' = Unbound
    /\ slack_state' = Unbound
    /\ success' = Unbound
    /\ summary' = Unbound
    /\ response' = Unbound
    /\ calls' = <<>>
    /\ exit' = "none"
    /\ UNCHANGED <<logfile, requests, invocations>>

\* Midnight passes between two invocations: the log file name changes with the
\* date (line 277), so the next process finds no file.
NewDay ==
    /\ pc = "idle"
    /\ invocations > 0
    /\ logfile' = NoFile
    /\ requests' = [f \in Functions |-> 0]
    /\ invocations' = 0
    /\ UNCHANGED process_vars

Next ==
    \/ ParseArgs
    \/ InitLogger
    \/ LoadConfig
    \/ GetEntityState
    \/ ResolveSlackState
    \/ SendState
    \/ SendSummary
    \/ Exit
    \/ NewDay

Spec == Init /\ [][Next]_vars

-----------------------------------------------------------------------------
(* Vocabulary of the properties. *)

Last(s) == s[Len(s)]

IsPrefix(a, b) == Len(a) <= Len(b) /\ SubSeq(b, 1, Len(a)) = a

Made(fn) == \E i \in 1..Len(calls) : calls[i].fn = fn

Count(fn) == Cardinality({ i \in 1..Len(calls) : calls[i].fn = fn })

Posts == {"send_slack_state_message", "send_slack_summary_message"}

\* Two strings are the same when compared without regard to case.
SameIgnoringCase(a, b) == lower(a) = lower(b)

\* The default entry of a mapping, or absence.
DefaultOrAbsent(mapping) == IF s_default \in DOMAIN mapping THEN mapping[s_default] ELSE None

\* Config.slack_state has returned in the running process.
Resolved == slack_state # Unbound

-----------------------------------------------------------------------------
\* C2: for every state string s and every mapping, if some key of the mapping
\* equals s without regard to case, Config.slack_state(s) returns the entry
\* stored under such a key; for every other string it returns the entry under
\* "default" if there is one, and absence otherwise.
C2_CaseInsensitiveLookup ==
    (Resolved /\ entity_state.type = "str") =>
        LET m == config.slack_states
            s == entity_state.val
            matching == { k \in DOMAIN m : SameIgnoringCase(k, s) }
        IN  IF matching # {}
            THEN \E k \in matching : slack_state = m[k]
            ELSE slack_state = DefaultOrAbsent(m)

\* The three failed fetches of C3: a 500 status, a body that is not JSON, a
\* well-formed list of entities without the configured one.
FetchFailure(r, entity_id) ==
    /\ r.kind = "http"
    /\ \/ r.status_code = 500
       \/ ~r.body.json
       \/ /\ r.body.json
          /\ r.body.value.type = "list"
          /\ find_entity(r.body.value.items, entity_id) = None

\* The running process fetched, and response is the answer to that fetch.
Fetched == calls # <<>> /\ Last(calls).fn = "get_entity_state"

\* C3: without an override, a fetch answered by a 500 status, a non-JSON body or
\* a well-formed body lacking the entity makes get_entity_state return absence
\* without raising, and the run then resolves to the "default" entry if the
\* mapping has one and to no target otherwise.
C3_FailedFetchRoutesToDefault ==
    (Fetched /\ FetchFailure(response, config.home_assistant.entity_id)) =>
        /\ exit # "exception"
        /\ entity_state = None
        /\ Resolved => slack_state = DefaultOrAbsent(config.slack_states)

\* The webhook accepted the message: status 200, JSON, "ok" is true.
Accepted(r) ==
    /\ r.kind = "http"
    /\ r.status_code = 200
    /\ IsJsonContentType(r.content_type)
    /\ r.body.json
    /\ r.body.value.type = "dict"
    /\ "ok" \in DOMAIN r.body.value.items
    /\ r.body.value.items.ok.type = "bool"
    /\ r.body.value.items.ok.val

\* C4: the summary built after the state-message send begins with
\* "Successfully sent" exactly when the webhook answered 200 with a JSON body
\* whose "ok" flag is true, and with "Failed to send" for every other answer.
C4_SummaryPrefix ==
    pc = "send_summary" =>
        Head(summary.val) = IF Accepted(response) THEN "Successfully sent "
                                                 ELSE "Failed to send "

\* The failures of a send that C5 lists: transport error, non-200 status, wrong
\* content type, malformed body, acceptance flag missing (or false).
SendFailure(r) ==
    \/ r.kind = "exception"
    \/ /\ r.kind = "http"
       /\ \/ r.status_code # 200
          \/ ~IsJsonContentType(r.content_type)
          \/ ~r.body.json
          \/ /\ r.body.json
             /\ \/ r.body.value.type # "dict"
                \/ /\ r.body.value.type = "dict"
                   /\ \/ "ok" \notin DOMAIN r.body.value.items
                      \/ /\ "ok" \in DOMAIN r.body.value.items
                         /\ r.body.value.items.ok.type = "bool"
                         /\ ~r.body.value.items.ok.val

\* The state-message send of the running process failed: judged by the answer
\* while it is the latest one, by the recorded outcome afterwards.
StateSendFailed ==
    /\ Made("send_slack_state_message")
    /\ IF Last(calls).fn = "send_slack_state_message"
       THEN SendFailure(response)
       ELSE ~Truthy(success)

\* C5: with a target resolved and a summary target configured, a failed
\* state-message send is not fatal: it is recorded as failed and the run goes on
\* to make exactly one summary POST, after the state-message POST.
C5_FailedSendStillSummarised ==
    (StateSendFailed /\ config.slack_summary # None) =>
        /\ pc = "send_summary" => (success # Unbound /\ ~Truthy(success))
        /\ pc = "done" =>
              /\ Count("send_slack_summary_message") = 1
              /\ Last(calls).fn = "send_slack_summary_message"

\* C8: the state fetch skips certificate verification exactly when the
\* configuration's insecure flag is true, and verifies when it is false or omitted.
C8_VerifyUnlessInsecure ==
    \A i \in 1..Len(calls) :
        calls[i].fn = "get_entity_state" =>
            (~calls[i].verify <=> config.home_assistant.insecure)

-----------------------------------------------------------------------------
\* C1: a second invocation of main() on the same calendar date makes no network
\* call at all, whatever the first one did, and what the first one wrote to the
\* log file is still there afterwards (the file is only appended to).
C1_SecondRunSilentAndLogKept ==
    [][ \/ NewDay
        \/ /\ logfile.exists =>
                 (logfile'.exists /\ IsPrefix(logfile.lines, logfile'.lines))
           /\ invocations > 1 => (calls' = <<>> /\ requests' = requests) ]_vars

\* A second invocation of the day has ended after a first one that sent a
\* state message.
C1_Witness ==
    /\ invocations = 2
    /\ pc = "done"
    /\ requests["send_slack_state_message"] = 1
    /\ calls = <<>>
    /\ Len(logfile.lines) > 1
    /\ Last(logfile.lines).msg = "Log file already exists"

RequiredFields ==
    [HomeAssistant |-> {"url", "access_token", "entity_id"},
     SlackState |-> {"webhook_url", "message"},
     SlackSummary |-> {"webhook_url"}]

\* The document lacks a field that a dataclass declares without a default.
LacksRequiredField(d) ==
    \/ d = None
    \/ /\ d # None
       /\ \/ "home_assistant" \notin DOMAIN d
          \/ "slack_states" \notin DOMAIN d
          \/ /\ "home_assistant" \in DOMAIN d
             /\ ~(RequiredFields.HomeAssistant \subseteq DOMAIN d.home_assistant)
          \/ /\ "slack_states" \in DOMAIN d
             /\ \E k \in DOMAIN d.slack_states :
                   /\ d.slack_states[k] # None
                   /\ ~(RequiredFields.SlackState \subseteq DOMAIN d.slack_states[k])
          \/ /\ "slack_summary" \in DOMAIN d
             /\ ~(RequiredFields.SlackSummary \subseteq DOMAIN d.slack_summary)

\* The document gives home_assistant a field of the wrong type.
HasWrongType(d) ==
    /\ d # None
    /\ "home_assistant" \in DOMAIN d
    /\ \E f \in DOMAIN d.home_assistant :
          d.home_assistant[f].type # (IF f = "insecure" THEN "bool" ELSE "str")

BrokenFile(file) ==
    \/ file.kind \in {"missing", "unparseable"}
    \/ /\ file.kind = "yaml"
       /\ LacksRequiredField(file.data) \/ HasWrongType(file.data)

\* C6: when the configuration file is missing, unparseable, lacks a required
\* field or has a field of the wrong type, load_config yields no configuration
\* and the run ends by returning, with no request made.
C6_BrokenConfigEndsRun ==
    (config_file # Unbound /\ BrokenFile(config_file)) =>
        /\ config = None
        /\ pc = "done"
        /\ exit = "return"
        /\ calls = <<>>
        /\ \A f \in Functions : requests[f] = 0

\* A run has ended on a document whose insecure flag is not a boolean.
C6_Witness ==
    /\ pc = "done"
    /\ config_file # Unbound
    /\ config_file.kind = "yaml"
    /\ HasWrongType(config_file.data)
    /\ Last(logfile.lines).msg = "Invalid configuration"

\* C7: with a state override on the command line the run makes no request to
\* the Home Assistant endpoint, and the override is the value resolved.
C7_OverrideSkipsFetch ==
    (args # Unbound /\ args.state # None) =>
        /\ ~Made("get_entity_state")
        /\ entity_state = args.state

\* An overridden run has resolved a target and sent its message.
C7_Witness ==
    /\ args # Unbound
    /\ args.state # None
    /\ pc = "send_summary"
    /\ slack_state = Config_slack_state(config, args.state)

\* C9: when the resolver returns absence, the run ends there by returning, with
\* a warning logged and no POST issued, summary target or not.
C9_NoTargetNoPost ==
    slack_state = None =>
        /\ pc = "done"
        /\ exit = "return"
        /\ Last(logfile.lines).level = "WARNING"
        /\ \A f \in Posts : ~Made(f) /\ requests[f] = 0

\* A run with a summary target configured has ended on an unresolved state.
C9_Witness ==
    /\ slack_state = None
    /\ pc = "done"
    /\ config.slack_summary # None

\* The place of each request in the pipeline.
Rank(fn) ==
    CASE fn = "get_entity_state" -> 1
      [] fn = "send_slack_state_message" -> 2
      [] fn = "send_slack_summary_message" -> 3

\* C10: over the invocations of one calendar date at most one state fetch, one
\* state-message POST and one summary POST are issued in total; within a
\* process they come in the order fetch, state message, summary, and a summary
\* POST never comes without the state-message POST before it.
C10_OncePerDayInOrder ==
    /\ \A f \in Functions : requests[f] <= 1
    /\ \A i, j \in 1..Len(calls) : i < j => Rank(calls[i].fn) < Rank(calls[j].fn)
    /\ Made("send_slack_summary_message") => Made("send_slack_state_message")

\* The day's second invocation has ended after a first one made all three requests.
C10_Witness ==
    /\ invocations >= 2
    /\ pc = "done"
    /\ \A f \in Functions : requests[f] = 1

====
